---- MODULE Spec2Model ----
(***************************************************************************)
(* A model of nexus-cli.py: one run of the tool (upload or download of a   *)
(* directory to/from a Nexus Maven2 repository through curl).              *)
(*                                                                         *)
(* Strings are sequences of one-character strings, so that strip, split,   *)
(* join and the membership test '.' in s are computed as Python computes   *)
(* them.  A few long literals that the code never inspects (the words of   *)
(* the curl trailer, the status digits, the groupId prefix, the lines of   *)
(* a remote index in the run model) are kept as one element each.          *)
(* A path of the file system is a sequence of names, <<>> being the root.  *)
(***************************************************************************)
EXTENDS Integers, Sequences, FiniteSets, TLC

VARIABLES
    args0,      \* the command line as the user gave it
    args,       \* the parsed command line (dict args): action, directory, version, login, passwd
    env,        \* os.environ: whether NEXUS_LOGIN / NEXUS_PASSWD are set
    cwd,        \* the working directory of the process
    fs,         \* the file system: path -> node
    fs0,        \* the file system when the run started
    pc,         \* position of the run
    data,       \* do_upload: the multipart fields (dict data)
    idxEntries, \* do_upload: the index lines
    touched,    \* the directories the upload checked, scanned, and wrote the index in
    curlCalls,  \* the external transfers invoked so far, in order
    result,     \* what the last run_curl_cmd returned: httpStatus and lines
    exitCode,   \* exit code of the process (-1 while running)
    msg         \* the message the run ended with

vars == <<args0, args, env, cwd, fs, fs0, pc, data, idxEntries, touched, curlCalls, result, exitCode, msg>>

----------------------------------------------------------------------------
(* Bounds of the model *)

\* longest args['directory'] that Init draws
MaxDirLen == 3
\* most entries a directory holds in Init
MaxEntries == 2
\* longest file name of the index round trip
MaxNameLen == 3
\* most files of the index round trip
MaxFiles == 2

----------------------------------------------------------------------------
(* Python string operations *)

RECURSIVE LStrip(_, _)
LStrip(s, cs) ==
    IF s # <<>> /\ Head(s) \in cs THEN LStrip(Tail(s), cs) ELSE s

RECURSIVE RStrip(_, _)
RStrip(s, cs) ==
    IF s # <<>> /\ s[Len(s)] \in cs THEN RStrip(SubSeq(s, 1, Len(s) - 1), cs) ELSE s

\* str.strip(chars)
Strip(s, cs) == RStrip(LStrip(s, cs), cs)

\* c in s
Contains(s, c) == \E i \in 1..Len(s) : s[i] = c

\* str.split(sep) for a separator out of seps: empty parts are kept
RECURSIVE Split(_, _)
Split(s, seps) ==
    IF \A i \in 1..Len(s) : s[i] \notin seps
    THEN <<s>>
    ELSE LET i == CHOOSE k \in 1..Len(s) :
                      s[k] \in seps /\ \A j \in 1..(k - 1) : s[j] \notin seps
         IN <<SubSeq(s, 1, i - 1)>> \o Split(SubSeq(s, i + 1, Len(s)), seps)

\* sep.join(parts)
RECURSIVE Join(_, _)
Join(parts, sep) ==
    IF parts = <<>> THEN <<>>
    ELSE IF Len(parts) = 1 THEN parts[1]
    ELSE parts[1] \o sep \o Join(Tail(parts), sep)

\* the characters str.strip() removes and str.splitlines() breaks at
Whitespace == {" ", "\t", "\n", "\r"}
LineBreaks == {"\n", "\r"}

\* str.splitlines(): a final line break opens no further line
SplitLines(s) ==
    LET p == Split(s, LineBreaks)
    IN IF p[Len(p)] = <<>> THEN SubSeq(p, 1, Len(p) - 1) ELSE p

\* all strings over alphabet cs of length 0..n
StringsUpTo(cs, n) == UNION {[1..k -> cs] : k \in 0..n}

\* the orders in which a set can be enumerated
Orders(S) ==
    {o \in [1..Cardinality(S) -> S] : \A i, j \in DOMAIN o : i # j => o[i] # o[j]}

----------------------------------------------------------------------------
(* The file system *)

DirNode == [kind |-> "dir", content |-> <<>>]
FileNode(c) == [kind |-> "file", content |-> c]
NoPath == << <<"<none>">> >>
NoFs == [p \in {} |-> DirNode]

Parent(p) == IF p = <<>> THEN <<>> ELSE SubSeq(p, 1, Len(p) - 1)
IsDirAt(f, p) == p \in DOMAIN f /\ f[p].kind = "dir"
IsFileAt(f, p) == p \in DOMAIN f /\ f[p].kind = "file"

\* names of the entries of directory p
ListDir(f, p) ==
    {q[Len(q)] : q \in {x \in DOMAIN f : Len(x) = Len(p) + 1 /\ SubSeq(x, 1, Len(p)) = p}}

RECURSIVE Walk(_, _, _)
Walk(f, cur, comps) ==
    IF comps = <<>> THEN cur
    ELSE IF ~IsDirAt(f, cur) THEN NoPath
    ELSE LET c == Head(comps)
             nxt == IF c = <<".">> THEN cur
                    ELSE IF c = <<".", ".">> THEN Parent(cur)
                    ELSE Append(cur, c)
         IN Walk(f, nxt, Tail(comps))

\* the place a path string names for the kernel: absolute from the root,
\* relative from the working directory; NoPath when it names nothing
Resolve(f, wd, s) ==
    IF s = <<>> THEN NoPath
    ELSE LET comps == SelectSeq(Split(s, {"/"}), LAMBDA c : c # <<>>)
             p == Walk(f, IF s[1] = "/" THEN <<>> ELSE wd, comps)
         IN IF p # NoPath /\ s[Len(s)] = "/" /\ ~IsDirAt(f, p) THEN NoPath ELSE p

\* os.path.exists / os.path.isdir
PathExists(f, wd, s) == Resolve(f, wd, s) \in DOMAIN f
PathIsDir(f, wd, s) == IsDirAt(f, Resolve(f, wd, s))

\* os.path.basename
Basename(s) == LET p == Split(s, {"/"}) IN p[Len(p)]

\* os.path.join(d, name), d not empty
PathJoin(d, name) == IF d[Len(d)] = "/" THEN d \o name ELSE d \o <<"/">> \o name

WriteFile(f, p, c) == [q \in DOMAIN f \cup {p} |-> IF q = p THEN FileNode(c) ELSE f[q]]
RemoveFile(f, p) == [q \in DOMAIN f \ {p} |-> f[q]]
MakeDir(f, p) == [q \in DOMAIN f \cup {p} |-> IF q = p THEN DirNode ELSE f[q]]

----------------------------------------------------------------------------
(* Program constants *)

\* args.get('version', '1.0')
DefaultVersion == <<"1", ".", "0">>
NoVersion == <<>>
\* CONF.groupId_prefix
GroupIdPrefix == <<"fr.gouv.minint.rrf">>
\* the status an upload must answer, and the one a download must answer
UploadOk == 204
DownloadOk == 200
\* the statuses run_curl_cmd treats as an authentication error
AuthStatusesOnly401 == {401}
AuthStatuses == {401, 403}

\* int() of the status digits of the trailer
HttpCode(t) ==
    CASE t = <<"200">> -> 200 [] t = <<"204">> -> 204 [] t = <<"400">> -> 400
      [] t = <<"401">> -> 401 [] t = <<"403">> -> 403 [] t = <<"404">> -> 404

Key(k, n) == [k |-> k, n |-> n]
NoData == [x \in {} |-> <<>>]
Put(d, key, val) == (key :> val) @@ d

Version(a) == IF a.version = NoVersion THEN DefaultVersion ELSE a.version

\* get_groupId
get_groupId(a) == GroupIdPrefix \o <<".">> \o a.group

----------------------------------------------------------------------------
(* do_upload *)

\* line 59: directory = args['directory'].strip('/\\')
Directory(a) == Strip(a.directory, {"/", "\\"})

\* line 102: idxFilePath
IdxFilePath(a) == Directory(a) \o <<"/">> \o Basename(Directory(a)) \o <<".", "t", "x", "t">>

\* line 85: the directory os.scandir enumerates
ScanPath(a) == a.directory

\* line 87-89: the entries that become an asset
Eligible(name, isFile) == name[1] # "." /\ isFile /\ Len(Split(name, {"."})) >= 2

\* lines 96: one index line
IndexLine(artifactId, version, classifier, extension) ==
    artifactId \o <<"-">> \o version \o <<"-">> \o classifier \o <<".">> \o extension \o <<"\n">>

\* line 97: assetIdx += 1
NextAssetIdxStuck(n) == n
NextAssetIdx(n) == n + 1

\* lines 87-99: one turn of the loop over the directory's entries
ScanEntry(st, name, isFile, dirstr) ==
    IF Eligible(name, isFile)
    THEN LET parts == Split(name, {"."})
             n == st.assetIdx
             classifier == Join(SubSeq(parts, 1, Len(parts) - 1), <<".">>)
             extension == parts[Len(parts)]
             d1 == Put(st.data, Key("asset", n), <<"@">> \o PathJoin(dirstr, name))
             d2 == Put(d1, Key("classifier", n), classifier)
             d3 == Put(d2, Key("extension", n), extension)
         IN [data |-> d3,
             idxEntries |-> Append(st.idxEntries,
                 IndexLine(d3[Key("artifactId", 0)], d3[Key("version", 0)],
                           d3[Key("classifier", n)], d3[Key("extension", n)])),
             assetIdx |-> NextAssetIdx(n)]
    ELSE st

\* lines 83-99: the loop, over the entries in the order scandir yields them
RECURSIVE ScanLoop(_, _, _, _, _)
ScanLoop(st, order, f, sp, dirstr) ==
    IF order = <<>> THEN st
    ELSE ScanLoop(ScanEntry(st, Head(order), IsFileAt(f, Append(sp, Head(order))), dirstr),
                  Tail(order), f, sp, dirstr)

----------------------------------------------------------------------------
(* run_curl_cmd and get_auth *)

\* lines 214-231
get_authNoPasswdCheck(a, e) ==
    IF a.login
    THEN [died |-> FALSE, auth |-> TRUE, args |-> [a EXCEPT !.passwd = TRUE]]
    ELSE IF e.NEXUS_LOGIN
         THEN [died |-> FALSE, auth |-> TRUE, args |-> [a EXCEPT !.login = TRUE, !.passwd = TRUE]]
         ELSE [died |-> FALSE, auth |-> FALSE, args |-> a]

get_auth(a, e) ==
    IF a.login
    THEN [died |-> FALSE, auth |-> TRUE, args |-> [a EXCEPT !.passwd = TRUE]]
    ELSE IF e.NEXUS_LOGIN
         THEN IF e.NEXUS_PASSWD
              THEN [died |-> FALSE, auth |-> TRUE,
                    args |-> [a EXCEPT !.login = TRUE, !.passwd = TRUE]]
              ELSE [died |-> TRUE, auth |-> FALSE, args |-> [a EXCEPT !.login = TRUE]]
         ELSE [died |-> FALSE, auth |-> FALSE, args |-> a]

\* line 162: what --write-out appends to the standard output of curl
Stdout(body, status) == body \o <<"\n", "**http_status", "=", status, "\n">>

\* what a transfer can come to: subprocess.run raises (timeout, curl cannot be
\* started), curl exits non-zero, or curl exits 0 with the trailer on stdout
CurlOutcome(raised, rc, stdout) == [raised |-> raised, returncode |-> rc, stdout |-> stdout]
CurlOutcomes(bodies, statuses) ==
    {CurlOutcome(TRUE, 0, <<>>), CurlOutcome(FALSE, 7, <<>>)}
    \cup {CurlOutcome(FALSE, 0, Stdout(b, s)) : b \in bodies, s \in statuses}

\* lines 195-199
RespLines(stdout) ==
    LET ls == SplitLines(stdout)
        stripped == [i \in 1..Len(ls) |-> Strip(ls[i], Whitespace)]
    IN SelectSeq(stripped, LAMBDA l : l # <<>>)

\* lines 195-201 and 206
ParseStdout(stdout) ==
    LET respLines == RespLines(stdout)
    IN [lines |-> SubSeq(respLines, 1, Len(respLines) - 1),
        httpStatus |-> HttpCode(Split(respLines[Len(respLines)], {"="})[2])]

Returned(a, invoked, p) ==
    [res |-> "return", msg |-> "", invoked |-> invoked, args |-> a,
     httpStatus |-> p.httpStatus, lines |-> p.lines]
Died(a, invoked, m, status) ==
    [res |-> "die", msg |-> m, invoked |-> invoked, args |-> a, httpStatus |-> status,
     lines |-> <<>>]
Raised(a, invoked) ==
    [res |-> "raise", msg |-> "traceback", invoked |-> invoked, args |-> a,
     httpStatus |-> -1, lines |-> <<>>]

\* lines 161-206
run_curl_cmd(a, e, out) ==
    LET au == get_auth(a, e)
    IN IF au.died THEN Died(au.args, FALSE, "NEXUS_PASSWD env variable is not defined", -1)
       ELSE IF out.raised THEN Raised(au.args, TRUE)
       ELSE IF out.returncode # 0 THEN Died(au.args, TRUE, "curl failed", -1)
       ELSE LET p == ParseStdout(out.stdout)
            IN IF p.httpStatus \in AuthStatuses
               THEN Died(au.args, TRUE, "authentication error, check login and password",
                         p.httpStatus)
               ELSE Returned(au.args, TRUE, p)

----------------------------------------------------------------------------
(* The run *)

NoResult == [httpStatus |-> -1, lines |-> <<>>]
NoTouched == [checked |-> NoPath, scanned |-> NoPath, index |-> NoPath]

\* die(msg): sys.exit(1); an uncaught exception ends the interpreter with 1 too
Exit(code, m) == pc' = "exit" /\ exitCode' = code /\ msg' = m

\* line 75: '.' in directory
HasDotNever(directory) == FALSE
HasDot(directory) == Contains(directory, ".")

\* lines 59-80
UploadValidate ==
    /\ pc = "do_upload"
    /\ LET directory == Directory(args)
       IN /\ IF ~PathExists(fs, cwd, directory)
             THEN Exit(1, "no such file or directory") /\ UNCHANGED <<data, touched>>
             ELSE IF ~PathIsDir(fs, cwd, directory)
             THEN Exit(1, "target must be a directory") /\ UNCHANGED <<data, touched>>
             ELSE IF HasDot(directory)
             THEN Exit(1, "dir name must not contain a dot") /\ UNCHANGED <<data, touched>>
             ELSE /\ data' = Put(Put(Put(NoData, Key("groupId", 0), get_groupId(args)),
                                     Key("version", 0), Version(args)),
                                 Key("artifactId", 0), Basename(directory))
                  /\ touched' = [touched EXCEPT !.checked = Resolve(fs, cwd, directory)]
                  /\ pc' = "scan"
                  /\ UNCHANGED <<exitCode, msg>>
    /\ UNCHANGED <<args0, args, env, cwd, fs, fs0, idxEntries, curlCalls, result>>

\* lines 82-99
UploadScan ==
    /\ pc = "scan"
    /\ LET sp == Resolve(fs, cwd, ScanPath(args))
       IN IF ~IsDirAt(fs, sp)
          THEN Exit(1, "traceback") /\ UNCHANGED <<data, idxEntries, touched>>
          ELSE \E order \in Orders(ListDir(fs, sp)) :
                 LET st == ScanLoop([data |-> data, idxEntries |-> <<>>, assetIdx |-> 2],
                                    order, fs, sp, ScanPath(args))
                 IN /\ data' = st.data
                    /\ idxEntries' = st.idxEntries
                    /\ touched' = [touched EXCEPT !.scanned = sp]
                    /\ pc' = "index"
                    /\ UNCHANGED <<exitCode, msg>>
    /\ UNCHANGED <<args0, args, env, cwd, fs, fs0, curlCalls, result>>

\* lines 101-107
UploadWriteIndex ==
    /\ pc = "index"
    /\ LET idxFilePath == IdxFilePath(args)
           p == Resolve(fs, cwd, idxFilePath)
       IN IF p = NoPath \/ ~IsDirAt(fs, Parent(p)) \/ IsDirAt(fs, p)
          THEN Exit(1, "traceback") /\ UNCHANGED <<fs, data, touched>>
          ELSE /\ fs' = WriteFile(fs, p, Join(idxEntries, <<>>))
               /\ data' = Put(Put(data, Key("asset", 1), <<"@">> \o idxFilePath),
                              Key("extension", 1), <<"t", "x", "t">>)
               /\ touched' = [touched EXCEPT !.index = p]
               /\ pc' = "transfer"
               /\ UNCHANGED <<exitCode, msg>>
    /\ UNCHANGED <<args0, args, env, cwd, fs0, idxEntries, curlCalls, result>>

\* lines 112-115: the finally clause, run however run_curl_cmd ended
CleanupOnReturnOnly(f, p, res) == IF res = "return" THEN RemoveFile(f, p) ELSE f
Cleanup(f, p, res) == RemoveFile(f, p)

\* line 187: the transfers subprocess.run was called for, each with the status
\* its trailer reported (-1 when it gave none) and the lines it returned
Invoke(calls, r, what) ==
    IF r.invoked
    THEN Append(calls, [call |-> what, httpStatus |-> r.httpStatus, lines |-> r.lines])
    ELSE calls

\* what curl may answer to each of the three calls
UploadOutcomes == CurlOutcomes({<<>>, <<"e", "r", "r">>}, {"204", "400", "401", "403"})
IndexBodies ==
    {<<>>, <<"r-1.0-a.b", "\n">>, <<"r-1.0-a.b", "\n", "r-1.0-c.d", "\n">>, <<"n", "o">>}
IndexOutcomes == CurlOutcomes(IndexBodies, {"200", "401", "403", "404"})
FilesOutcomes == CurlOutcomes({<<>>}, {"200", "401", "403", "404"})

\* lines 110-115
UploadTransfer ==
    /\ pc = "transfer"
    /\ \E out \in UploadOutcomes :
         LET r == run_curl_cmd(args, env, out)
         IN /\ args' = r.args
            /\ curlCalls' = Invoke(curlCalls, r, "upload")
            /\ fs' = Cleanup(fs, Resolve(fs, cwd, IdxFilePath(args)), r.res)
            /\ IF r.res = "return"
               THEN /\ result' = [httpStatus |-> r.httpStatus, lines |-> r.lines]
                    /\ pc' = "report"
                    /\ UNCHANGED <<exitCode, msg>>
               ELSE Exit(1, r.msg) /\ UNCHANGED result
    /\ UNCHANGED <<args0, env, cwd, fs0, data, idxEntries, touched>>

\* lines 117-120
UploadReport ==
    /\ pc = "report"
    /\ IF result.httpStatus # UploadOk THEN Exit(1, "upload failed") ELSE Exit(0, "upload OK")
    /\ UNCHANGED <<args0, args, env, cwd, fs, fs0, data, idxEntries, touched, curlCalls, result>>

----------------------------------------------------------------------------
(* do_download *)

\* line 129
DestDir(a) == a.directory \o <<"-">> \o Version(a)

\* line 131: the destination may be used when it holds nothing
DestUsableAlways(names) == TRUE
DestUsable(names) == Cardinality(names) = 0

\* lines 124-134
DownloadPrepare ==
    /\ pc = "do_download"
    /\ LET destDir == DestDir(args)
           p == Resolve(fs, cwd, destDir)
       IN IF PathExists(fs, cwd, destDir)
          THEN IF ~IsDirAt(fs, p)
               THEN Exit(1, "traceback") /\ UNCHANGED fs
               ELSE IF ~DestUsable(ListDir(fs, p))
               THEN Exit(1, "destination directory exists and not empty") /\ UNCHANGED fs
               ELSE pc' = "fetch_index" /\ UNCHANGED <<fs, exitCode, msg>>
          ELSE IF p = NoPath \/ ~IsDirAt(fs, Parent(p))
               THEN Exit(1, "traceback") /\ UNCHANGED fs
               ELSE fs' = MakeDir(fs, p) /\ pc' = "fetch_index" /\ UNCHANGED <<exitCode, msg>>
    /\ UNCHANGED <<args0, args, env, cwd, fs0, data, idxEntries, touched, curlCalls, result>>

\* lines 143-147: what the index fetch must have returned for the bulk fetch
IndexUsableAnyStatus(r) == Len(r.lines) # 0
IndexUsable(r) == r.httpStatus = DownloadOk /\ Len(r.lines) # 0

\* lines 136-147
DownloadFetchIndex ==
    /\ pc = "fetch_index"
    /\ \E out \in IndexOutcomes :
         LET r == run_curl_cmd(args, env, out)
         IN /\ args' = r.args
            /\ curlCalls' = Invoke(curlCalls, r, "index")
            /\ IF r.res # "return"
               THEN Exit(1, r.msg) /\ UNCHANGED result
               ELSE /\ result' = [httpStatus |-> r.httpStatus, lines |-> r.lines]
                    /\ IF IndexUsable(r)
                       THEN pc' = "fetch_files" /\ UNCHANGED <<exitCode, msg>>
                       ELSE IF r.httpStatus # DownloadOk
                       THEN Exit(1, "download failed: directory or index file not found")
                       ELSE Exit(1, "nothing to download")
    /\ UNCHANGED <<args0, env, cwd, fs, fs0, data, idxEntries, touched>>

\* line 149-151: the names the bulk fetch asks for
FileHashes(fileNames) == [i \in 1..Len(fileNames) |-> fileNames[i] \o <<".md5">>]
Wanted(fileNames) == FileHashes(fileNames) \o fileNames

\* line 179: curl --remote-name-all --output-dir: the files a fetch answered
\* with 200 are written under their remote names
RECURSIVE CurlWrites(_, _, _)
CurlWrites(f, dir, names) ==
    IF names = <<>> THEN f
    ELSE CurlWrites(WriteFile(f, Append(dir, Head(names)), <<"remote">>), dir, Tail(names))

\* lines 149-158
DownloadFetchFiles ==
    /\ pc = "fetch_files"
    /\ \E out \in FilesOutcomes :
         LET r == run_curl_cmd(args, env, out)
             dest == Resolve(fs, cwd, DestDir(args))
         IN /\ args' = r.args
            /\ curlCalls' = Invoke(curlCalls, r, "files")
            /\ IF r.res # "return"
               THEN Exit(1, r.msg) /\ UNCHANGED <<result, fs>>
               ELSE /\ result' = [httpStatus |-> r.httpStatus, lines |-> r.lines]
                    /\ IF r.httpStatus # DownloadOk
                       THEN Exit(1, "download failed") /\ UNCHANGED fs
                       ELSE /\ Exit(0, "download OK")
                            /\ fs' = CurlWrites(fs, dest, Wanted(result.lines))
    /\ UNCHANGED <<args0, env, cwd, fs0, data, idxEntries, touched>>

----------------------------------------------------------------------------
(* The states a run can start in *)

R == <<"r">>
S == <<"s">>
OldContent == <<"o", "l", "d">>

\* the command lines: what a user can type for <directory>
DirChars == {"/", "r", "."}
DirStrings == StringsUpTo(DirChars, MaxDirLen)
VersionArgs == {NoVersion, <<"2">>}

\* the entries a directory may hold: a file with an extension, a hidden file,
\* a file without extension, a sub-directory, and a file named like the index
EntryNames == {<<"a", ".", "b">>, <<".", "h">>, <<"n">>, <<"d">>, <<"r", ".", "t", "x", "t">>}
EntryNode(name) == IF name = <<"d">> THEN DirNode ELSE FileNode(OldContent)

Root == [p \in {<<>>} |-> DirNode]
Tree(base, E) ==
    [p \in {base} \cup {Append(base, e) : e \in E} |->
        IF p = base THEN DirNode ELSE EntryNode(p[Len(p)])]
\* what may be at path base: nothing, a file, or a directory of at most n entries
Targets(base, n) ==
    {NoFs, [p \in {base} |-> FileNode(OldContent)]}
    \cup {Tree(base, E) : E \in {X \in SUBSET EntryNames : Cardinality(X) <= n}}

UploadFileSystems(wd) ==
    IF wd = <<>>
    THEN {Root @@ t : t \in Targets(<<R>>, MaxEntries)}
    ELSE {Root @@ [p \in {<<S>>} |-> DirNode] @@ t @@ u :
             t \in Targets(<<S, R>>, MaxEntries),
             u \in {NoFs, Tree(<<R>>, {}), Tree(<<R>>, {<<"a", ".", "b">>})}}

DownloadFileSystems(v) ==
    {Root @@ t @@ u : t \in {NoFs, Tree(<<R>>, {})},
                      u \in Targets(<<R \o <<"-">> \o v>>, 1)}

ArgsOf(action, directory, version, login) ==
    [action |-> action, directory |-> directory, group |-> <<"g">>, version |-> version,
     login |-> login, passwd |-> FALSE]

InitRun(a, e, wd, f) ==
    /\ args0 = a
    /\ args = a
    /\ env = e
    /\ cwd = wd
    /\ fs = f
    /\ fs0 = f
    /\ pc = "do_" \o a.action
    /\ data = NoData
    /\ idxEntries = <<>>
    /\ touched = NoTouched
    /\ curlCalls = <<>>
    /\ result = NoResult
    /\ exitCode = -1
    /\ msg = ""

\* the credential situations get_auth tells apart: --login given, both
\* variables set, NEXUS_LOGIN alone, nothing
Environment(l, p) == [NEXUS_LOGIN |-> l, NEXUS_PASSWD |-> p]
Credentials ==
    {<<TRUE, Environment(FALSE, FALSE)>>, <<FALSE, Environment(TRUE, TRUE)>>,
     <<FALSE, Environment(TRUE, FALSE)>>, <<FALSE, Environment(FALSE, FALSE)>>}

\* what a user can type for the artifactId of a download
ArtifactIds == StringsUpTo({"/", "r"}, MaxDirLen)

InitUpload ==
    \E wd \in {<<>>, <<S>>} : \E f \in UploadFileSystems(wd) :
       \E d \in DirStrings, c \in Credentials :
          InitRun(ArgsOf("upload", d, NoVersion, c[1]), c[2], wd, f)

InitDownload ==
    \E v \in VersionArgs : \E f \in DownloadFileSystems(IF v = NoVersion THEN DefaultVersion ELSE v) :
       \E d \in ArtifactIds, c \in Credentials :
          InitRun(ArgsOf("download", d, v, c[1]), c[2], <<>>, f)

Init == InitUpload \/ InitDownload

Next ==
    \/ UploadValidate
    \/ UploadScan
    \/ UploadWriteIndex
    \/ UploadTransfer
    \/ UploadReport
    \/ DownloadPrepare
    \/ DownloadFetchIndex
    \/ DownloadFetchFiles

Spec == Init /\ [][Next]_vars

----------------------------------------------------------------------------
(* The index round trip: an upload writes the index, the remote serves it   *)
(* back as the body of the index fetch of a download                        *)

NameChars == {"a", ".", " "}
FileNames == StringsUpTo(NameChars, MaxNameLen) \ {<<>>, <<".">>, <<".", ".">>}
FileSets == UNION {{{q[i] : i \in 1..k} : q \in [1..k -> FileNames]} : k \in 0..MaxFiles}
CodecFileSystems ==
    {Root @@ [p \in {<<R>>} \cup {<<R, n>> : n \in E} |->
                 IF p = <<R>> THEN DirNode ELSE FileNode(OldContent)] : E \in FileSets}

CodecInit ==
    \E f \in CodecFileSystems, v \in VersionArgs :
       InitRun(ArgsOf("upload", R, v, TRUE), Environment(FALSE, FALSE), <<>>, f)

\* lines 141 and 195-206: the index fetch answers 200 with the file the upload wrote
FetchWrittenIndex ==
    /\ pc = "transfer"
    /\ LET r == run_curl_cmd(args, env,
                    CurlOutcome(FALSE, 0, Stdout(fs[touched.index].content, "200")))
       IN /\ args' = r.args
          /\ result' = [httpStatus |-> r.httpStatus, lines |-> r.lines]
          /\ pc' = "fetched"
    /\ UNCHANGED <<args0, env, cwd, fs, fs0, data, idxEntries, touched, curlCalls, exitCode, msg>>

CodecNext ==
    \/ UploadValidate
    \/ UploadScan
    \/ UploadWriteIndex
    \/ FetchWrittenIndex

SpecCodec == CodecInit /\ [][CodecNext]_vars

----------------------------------------------------------------------------
(* Properties *)

IsUpload == args0.action = "upload"
IsDownload == args0.action = "download"
IndexWritten == touched.index # NoPath

AuthErrorMsg == "authentication error, check login and password"
NoPasswdMsg == "NEXUS_PASSWD env variable is not defined"
ValidationMsgs ==
    {"no such file or directory", "target must be a directory", "dir name must not contain a dot"}
GenericMsgs ==
    {"upload failed", "download failed", "download failed: directory or index file not found",
     "upload OK", "download OK"}

\* C1: once do_upload has written the index file, the file no longer exists
\* when the run has ended, however run_curl_cmd ended (204, another status,
\* die, or an exception).
IndexFileRemovedAtExit ==
    (pc = "exit" /\ IndexWritten) => touched.index \notin DOMAIN fs

\* the index was written, the transfer raised, and the run is over
IndexFileRemovedWitness ==
    /\ pc = "exit" /\ IndexWritten
    /\ msg = "traceback" /\ Len(curlCalls) = 1
    /\ touched.index \notin DOMAIN fs

\* the entries of the scanned directory that are eligible for an asset
EligibleEntries ==
    {n \in ListDir(fs0, touched.scanned) : Eligible(n, IsFileAt(fs0, Append(touched.scanned, n)))}
AssetNumbers == {k.n : k \in {x \in DOMAIN data : x.k = "asset"}}
AssetsOf(name) ==
    {i \in AssetNumbers \ {1} : data[Key("asset", i)] = <<"@">> \o PathJoin(args.directory, name)}

\* C2: with N eligible entries in the directory, the multipart data has exactly
\* the assets 1..N+1: asset 1 is the index file with extension txt, every
\* eligible entry has exactly one asset among 2..N+1, with its classifier and
\* extension, and every other entry has none.
ManifestAssets ==
    IndexWritten =>
        LET N == Cardinality(EligibleEntries)
        IN /\ AssetNumbers = 1..(N + 1)
           /\ data[Key("asset", 1)] = <<"@">> \o IdxFilePath(args)
           /\ data[Key("extension", 1)] = <<"t", "x", "t">>
           /\ \A n \in EligibleEntries :
                /\ Cardinality(AssetsOf(n)) = 1
                /\ \A i \in AssetsOf(n) :
                     data[Key("classifier", i)] \o <<".">> \o data[Key("extension", i)] = n
           /\ \A n \in ListDir(fs0, touched.scanned) \ EligibleEntries : AssetsOf(n) = {}

\* a directory with an eligible file and an entry that is not eligible
ManifestAssetsWitness ==
    /\ IndexWritten
    /\ Cardinality(EligibleEntries) >= 1
    /\ ListDir(fs0, touched.scanned) \ EligibleEntries # {}
    /\ Cardinality(AssetNumbers) = Cardinality(EligibleEntries) + 1

\* the index lines as written, without their line ends
WrittenLines == [i \in 1..Len(idxEntries) |-> SubSeq(idxEntries[i], 1, Len(idxEntries[i]) - 1)]

\* C3: the index lines written by do_upload, served back as the body of the
\* index fetch and parsed by run_curl_cmd, are the same strings in the same order.
IndexRoundTrip ==
    pc = "fetched" => result.lines = WrittenLines

\* C4: when the remote answers a call with 401 or 403 the run ends with exit
\* code 1 and the authentication message, never with a generic message or success.
AuthErrorReported ==
    (\E i \in 1..Len(curlCalls) : curlCalls[i].httpStatus \in {401, 403}) =>
        /\ pc = "exit"
        /\ exitCode = 1
        /\ msg = AuthErrorMsg
        /\ msg \notin GenericMsgs

\* the bulk fetch of a download was answered 403
AuthErrorWitness ==
    /\ pc = "exit"
    /\ Len(curlCalls) = 2
    /\ curlCalls[2].call = "files"
    /\ curlCalls[2].httpStatus = 403
    /\ msg = AuthErrorMsg

\* C5: a download invokes curl at most twice, the index fetch first and the
\* bulk fetch second, the bulk fetch only after the index fetch returned 200
\* with a non-empty list; another index status ends the run with exit code 1
\* and no bulk fetch. An upload invokes curl at most once.
TransferOrder ==
    /\ IsUpload =>
         /\ Len(curlCalls) <= 1
         /\ \A i \in 1..Len(curlCalls) : curlCalls[i].call = "upload"
    /\ IsDownload =>
         /\ Len(curlCalls) <= 2
         /\ Len(curlCalls) >= 1 => curlCalls[1].call = "index"
         /\ Len(curlCalls) = 2 =>
              /\ curlCalls[2].call = "files"
              /\ curlCalls[1].httpStatus = 200
              /\ Len(curlCalls[1].lines) > 0
         /\ (Len(curlCalls) >= 1 /\ curlCalls[1].httpStatus # 200) =>
              /\ pc = "exit"
              /\ exitCode = 1
              /\ Len(curlCalls) = 1

\* a download that made both calls and succeeded
TransferOrderWitness ==
    /\ IsDownload
    /\ Len(curlCalls) = 2
    /\ curlCalls[1].httpStatus = 200
    /\ pc = "exit" /\ exitCode = 0

\* C6: an upload whose directory name contains '.' ends in a validation
\* failure with exit code 1, before curl is invoked and before the index is written.
DotDirectoryFails ==
    (IsUpload /\ Contains(Basename(Directory(args0)), ".")) =>
        /\ pc \in {"do_upload", "exit"}
        /\ curlCalls = <<>>
        /\ ~IndexWritten
        /\ fs = fs0
        /\ pc = "exit" => (exitCode = 1 /\ msg \in ValidationMsgs)

\* an existing directory whose name contains a dot was refused for the dot
DotDirectoryWitness ==
    /\ IsUpload /\ Contains(Basename(Directory(args0)), ".")
    /\ PathIsDir(fs0, cwd, Directory(args0))
    /\ pc = "exit" /\ msg = "dir name must not contain a dot"

DestNotEmpty ==
    /\ PathIsDir(fs0, cwd, DestDir(args0))
    /\ ListDir(fs0, Resolve(fs0, cwd, DestDir(args0))) # {}

\* C7: a download whose destination directory exists and is not empty ends in
\* a validation failure with exit code 1 before curl is invoked, the file
\* system (the destination's content with it) unchanged.
DestNotEmptyFails ==
    (IsDownload /\ DestNotEmpty) =>
        /\ pc \in {"do_download", "exit"}
        /\ curlCalls = <<>>
        /\ fs = fs0
        /\ pc = "exit" => (exitCode = 1 /\ msg = "destination directory exists and not empty")

\* such a download has ended
DestNotEmptyWitness ==
    /\ IsDownload /\ DestNotEmpty
    /\ pc = "exit" /\ exitCode = 1
    /\ ListDir(fs, Resolve(fs, cwd, DestDir(args0))) # {}

EnvLoginWithoutPasswd == ~args0.login /\ env.NEXUS_LOGIN /\ ~env.NEXUS_PASSWD
LocalFailureMsgs == ValidationMsgs \cup {"destination directory exists and not empty", "traceback"}

\* C8 as stated: without --login and with NEXUS_LOGIN set but not
\* NEXUS_PASSWD, every run ends with the configuration error and exit code 1
\* before curl is invoked.
EnvLoginWithoutPasswdConfigError ==
    (EnvLoginWithoutPasswd /\ pc = "exit") =>
        /\ exitCode = 1
        /\ msg = NoPasswdMsg
        /\ curlCalls = <<>>

\* C8 as amended: in that situation curl is never invoked and every run that
\* ends, ends with exit code 1: with the configuration error when it came to
\* the first transfer call, and with the error of a local check (validation of
\* the directory or destination, a file system error) when that came first.
EnvLoginWithoutPasswdFails ==
    EnvLoginWithoutPasswd =>
        /\ curlCalls = <<>>
        /\ pc \notin {"report", "fetch_files"}
        /\ pc = "exit" =>
             /\ exitCode = 1
             /\ msg \in LocalFailureMsgs \cup {NoPasswdMsg}
             /\ (IndexWritten \/ (IsDownload /\ msg \notin LocalFailureMsgs)) => msg = NoPasswdMsg

\* an upload that passed its local checks and ended on the configuration error
EnvLoginWithoutPasswdWitness ==
    /\ EnvLoginWithoutPasswd
    /\ IsUpload /\ IndexWritten
    /\ pc = "exit" /\ msg = NoPasswdMsg /\ curlCalls = <<>>

\* C9: the directory checked for existence, the directory whose entries are
\* enumerated, and the directory the index file is written in and removed
\* from, are the same directory.
SameDirectory ==
    IndexWritten =>
        /\ touched.scanned = touched.checked
        /\ Parent(touched.index) = touched.checked

\* C10: an upload leaves every file that existed before the run present and
\* unchanged, whatever the outcome.
UploadFrame ==
    (IsUpload /\ pc = "exit") =>
        \A p \in DOMAIN fs0 : p \in DOMAIN fs /\ fs[p] = fs0[p]

====
